---- MODULE Spec2Model ----
(***************************************************************************)
(* Model of internal/provider/workspace_data_source.go: the two data       *)
(* sources WorkspaceDataSource and RepositoryDataSource of the repoflow    *)
(* provider, their Configure and Read handlers, and the responses of the   *)
(* repoflow client they call.                                              *)
(*                                                                         *)
(* Go strings are sequences of tokens: a token is a run of characters      *)
(* that holds no separator, and "/" is a token of its own, so that joining *)
(* and splitting on "/" are computed and not assumed.  A Go pointer (an    *)
(* optional value) is a sequence of length at most one: <<>> is nil and    *)
(* <<v>> points to v.  A Go slice is either nil or a sequence, written     *)
(* the same way: <<>> is the nil slice, <<s>> the slice with elements s.   *)
(***************************************************************************)
EXTENDS Integers, Sequences, FiniteSets, TLC

VARIABLES
    client,      \* d.client of each data source: NoClient or a client handle
    configured,  \* request and response of the latest Configure call
    frame        \* one Read invocation per host worker: locals, response, calls

vars == <<client, configured, frame>>

----------------------------------------------------------------------------
(* Bounds of the model *)

MaxIdLen == 2
MaxChildren == 2
MaxMillis == 1

----------------------------------------------------------------------------
(* Strings *)

Slash == "/"
EmptyString == <<>>

RECURSIVE SeqsUpTo(_, _)
SeqsUpTo(S, n) ==
    IF n = 0 THEN {<<>>}
    ELSE LET shorter == SeqsUpTo(S, n - 1)
         IN  shorter \cup {Append(s, x) : s \in shorter, x \in S}

\* strings.Contains(s, sub)
Contains(s, sub) ==
    \E i \in 0..(Len(s) - Len(sub)) : SubSeq(s, i + 1, i + Len(sub)) = sub

\* strings.SplitN(s, "/", 2): the split of s on its first "/"
SplitFirst(s) ==
    IF \E i \in 1..Len(s) : s[i] = Slash
    THEN LET i == CHOOSE k \in 1..Len(s) :
                      s[k] = Slash /\ \A j \in 1..(k - 1) : s[j] # Slash
         IN  <<SubSeq(s, 1, i - 1), SubSeq(s, i + 1, Len(s))>>
    ELSE <<s>>

RECURSIVE Join(_, _)
\* strings.Join(parts, sep)
Join(parts, sep) ==
    IF Len(parts) = 0 THEN EmptyString
    ELSE IF Len(parts) = 1 THEN parts[1]
    ELSE parts[1] \o <<sep>> \o Join(Tail(parts), sep)

----------------------------------------------------------------------------
(* terraform-plugin-framework values and diagnostics, as the handlers use   *)
(* them                                                                     *)

StringNull == [null |-> TRUE, value |-> EmptyString]
StringValue(s) == [null |-> FALSE, value |-> s]
StringPointerValue(p) == IF p = <<>> THEN StringNull ELSE StringValue(p[1])
ValueString(v) == v.value

BoolNull == [null |-> TRUE, value |-> FALSE]
BoolValue(b) == [null |-> FALSE, value |-> b]

Int64Null == [null |-> TRUE, value |-> 0]
Int64Value(n) == [null |-> FALSE, value |-> n]
Int64PointerValue(p) == IF p = <<>> THEN Int64Null ELSE Int64Value(p[1])

ListNull == [null |-> TRUE, elems |-> <<>>]
\* types.ListValueFrom(ctx, types.StringType, ids): the list and its diagnostics
ListValueFrom(ids) ==
    [list  |-> [null |-> FALSE, elems |-> [i \in 1..Len(ids) |-> StringValue(ids[i])]],
     diags |-> <<>>]

ErrorDiagnostic(summary, detail) ==
    [severity |-> "error", summary |-> summary, detail |-> detail]

AddError(diags, summary, detail) == Append(diags, ErrorDiagnostic(summary, detail))

ErrorCount(diags) == Cardinality({i \in 1..Len(diags) : diags[i].severity = "error"})

HasError(diags) == \E i \in 1..Len(diags) : diags[i].severity = "error"

\* factory.IntPtrToInt64Ptr: widens an optional int to an optional int64
IntPtrToInt64Ptr(p) == IF p = <<>> THEN <<>> ELSE <<p[1]>>

----------------------------------------------------------------------------
(* Records of the repoflow client *)

NilError == <<>>

\* the zero repoflow.Workspace and repoflow.Repository
ZeroWorkspace == [Id |-> EmptyString, Name |-> EmptyString]

ZeroRepository ==
    [Id |-> EmptyString, Name |-> EmptyString, Status |-> EmptyString,
     PackageType |-> EmptyString, RepositoryType |-> EmptyString,
     RemoteRepositoryUrl |-> <<>>, IsRemoteCacheEnabled |-> FALSE,
     FileCacheTimeTillRevalidation |-> <<>>,
     MetadataCacheTimeTillRevalidation |-> <<>>,
     UploadLocalRepositoryId |-> <<>>, ChildRepositories |-> <<>>]

\* what GetWorkspace and GetRepository return: (record, err)
WorkspaceOk(w) == [err |-> NilError, ws |-> w]
WorkspaceErr(e) == [err |-> <<e>>, ws |-> ZeroWorkspace]
RepositoryOk(r) == [err |-> NilError, rp |-> r]
RepositoryErr(e) == [err |-> <<e>>, rp |-> ZeroRepository]
NoResponse == [err |-> NilError, none |-> TRUE]

----------------------------------------------------------------------------
(* The models the handlers fill *)

\* var data WorkspaceResourceModel: the fields Read uses
NullWorkspaceModel == [Name |-> StringNull, Id |-> StringNull]

\* var data RepositoryDataSourceModel
NullRepositoryModel ==
    [Name |-> StringNull, Id |-> StringNull, WorkspaceId |-> StringNull,
     PackageType |-> StringNull, RepositoryType |-> StringNull,
     RepositoryId |-> StringNull, RemoteRepositoryUrl |-> StringNull,
     RemoteCacheEnabled |-> BoolNull,
     FileCacheTimeTillRevalidation |-> Int64Null,
     MetadataCacheTimeTillRevalidation |-> Int64Null,
     ChildRepositoryIds |-> ListNull,
     UploadLocalRepositoryId |-> StringNull, Status |-> StringNull]

\* resp.State before State.Set
NoState == [written |-> FALSE]
\* resp.State.Set(ctx, &data): the state holds the model; no diagnostics
StateSet(data) == [written |-> TRUE, value |-> data]

\* req.Config.Get(ctx, &data) of the workspace data source: the required name
\* is set, the computed id is null; an unreadable config gives an error
WorkspaceConfigGet(cfg) ==
    IF cfg.readable
    THEN [data |-> [NullWorkspaceModel EXCEPT !.Name = StringValue(cfg.name)],
          diags |-> <<>>]
    ELSE [data |-> NullWorkspaceModel,
          diags |-> <<ErrorDiagnostic("Value Conversion Error", <<"config">>)>>]

\* req.Config.Get(ctx, &data) of the repository data source: name and
\* workspace are set, every computed attribute is null
RepositoryConfigGet(cfg) ==
    IF cfg.readable
    THEN [data |-> [NullRepositoryModel EXCEPT !.Name = StringValue(cfg.name),
                                               !.WorkspaceId = StringValue(cfg.workspace)],
          diags |-> <<>>]
    ELSE [data |-> NullRepositoryModel,
          diags |-> <<ErrorDiagnostic("Value Conversion Error", <<"config">>)>>]

----------------------------------------------------------------------------
(* One Read invocation: its locals, its response, the calls it has made *)

InitFrame ==
    [kind |-> "none", pc |-> "idle",
     config |-> [readable |-> FALSE], data |-> NullWorkspaceModel,
     workspace |-> EmptyString, repository |-> EmptyString,
     workspaceId |-> EmptyString,
     diags |-> <<>>, state |-> NoState,
     calls |-> <<>>, wsResp |-> NoResponse, rpResp |-> NoResponse]

Call(fn, args) == [fn |-> fn, args |-> args]

----------------------------------------------------------------------------
(* WorkspaceDataSource.Read *)

\* fmt.Sprintf("Unable to get workspace, got error: %s", err)
WorkspaceErrorDetail(err) == <<"Unable to get workspace, got error: ">> \o err

\* lines 74-83: read the config, stop on an error, take the name
WorkspaceReadConfig(f, cfg) ==
    LET got   == WorkspaceConfigGet(cfg)
        diags == f.diags \o got.diags
    IN  IF HasError(diags)
        THEN [f EXCEPT !.kind = "workspace", !.config = cfg, !.data = got.data,
                       !.diags = diags, !.pc = "done"]
        ELSE [f EXCEPT !.kind = "workspace", !.config = cfg, !.data = got.data,
                       !.diags = diags,
                       !.workspace = ValueString(got.data.Name),
                       !.pc = "GetWorkspace"]

\* the lookup with the name left as the config gave it
WorkspaceReadLookup_KeepsName(f, resp) ==
    LET g == [f EXCEPT !.calls = Append(@, Call("GetWorkspace", <<f.workspace>>)),
                       !.wsResp = resp, !.pc = "done"]
    IN  IF resp.err # NilError
        THEN [g EXCEPT !.diags = AddError(@, "Client Error", WorkspaceErrorDetail(resp.err[1]))]
        ELSE LET data == [g.data EXCEPT !.Id = StringValue(resp.ws.Id)]
             IN  [g EXCEPT !.data = data, !.state = StateSet(data)]

\* lines 85-103: the lookup, then either the error or the state
WorkspaceReadLookup(f, resp) ==
    LET g == [f EXCEPT !.calls = Append(@, Call("GetWorkspace", <<f.workspace>>)),
                       !.wsResp = resp, !.pc = "done"]
    IN  IF resp.err # NilError
        THEN [g EXCEPT !.diags = AddError(@, "Client Error", WorkspaceErrorDetail(resp.err[1]))]
        ELSE LET data == [g.data EXCEPT !.Id = StringValue(resp.ws.Id),
                                        !.Name = StringValue(resp.ws.Name)]
             IN  [g EXCEPT !.data = data, !.state = StateSet(data)]

----------------------------------------------------------------------------
(* RepositoryDataSource.Read *)

\* fmt.Sprintf("Unable to get worksapce %s, got error: %s", workspaceId, err)
WorkspaceLookupErrorDetail(workspaceId, err) ==
    <<"Unable to get worksapce ">> \o workspaceId \o <<", got error: ">> \o err

\* the message with the workspace id in the place of the repository name
RepositoryErrorDetail_WrongArgument(repository, workspaceId, err) ==
    <<"Unable to read repository ">> \o workspaceId \o <<" on workspaceId ">>
        \o workspaceId \o <<", got error: ">> \o err

\* fmt.Sprintf("Unable to read repository %s on workspaceId %s, got error: %s",
\*             repository, workspaceId, err)
RepositoryErrorDetail(repository, workspaceId, err) ==
    <<"Unable to read repository ">> \o repository \o <<" on workspaceId ">>
        \o workspaceId \o <<", got error: ">> \o err

\* GetRepository called with the config's workspace reference
GetRepositoryArgs_RawReference(f) == <<f.workspace, f.repository>>

\* the arguments of d.client.GetRepository(workspaceId, repository)
GetRepositoryArgs(f) == <<f.workspaceId, f.repository>>

\* the state id joined in the other order
ComposeIdentity_Swapped(data, workspaceId, rp) ==
    [data EXCEPT !.Id = StringValue(Join(<<rp.Id, workspaceId>>, Slash)),
                 !.RepositoryId = StringValue(rp.Id),
                 !.WorkspaceId = StringValue(workspaceId)]

\* lines 265-270: the state id and the two ids it is made of
ComposeIdentity(data, workspaceId, rp) ==
    [data EXCEPT !.Id = StringValue(Join(<<workspaceId, rp.Id>>, Slash)),
                 !.RepositoryId = StringValue(rp.Id),
                 !.WorkspaceId = StringValue(workspaceId)]

\* the name left as the config gave it
MapCoreFields_KeepsName(data, rp) ==
    [data EXCEPT !.Status = StringValue(rp.Status)]

\* lines 273-274
MapCoreFields(data, rp) ==
    [data EXCEPT !.Name = StringValue(rp.Name),
                 !.Status = StringValue(rp.Status)]

\* each type field guarded by its own emptiness
MapTypeFields_OwnGuards(data, rp) ==
    LET d1 == IF rp.PackageType # EmptyString
              THEN [data EXCEPT !.PackageType = StringValue(rp.PackageType)]
              ELSE data
    IN  IF rp.RepositoryType # EmptyString
        THEN [d1 EXCEPT !.RepositoryType = StringValue(rp.RepositoryType)]
        ELSE d1

\* lines 275-280: both assignments are guarded by rp.RepositoryType != ""
MapTypeFields(data, rp) ==
    LET d1 == IF rp.RepositoryType # EmptyString
              THEN [data EXCEPT !.PackageType = StringValue(rp.PackageType)]
              ELSE data
    IN  IF rp.RepositoryType # EmptyString
        THEN [d1 EXCEPT !.RepositoryType = StringValue(rp.RepositoryType)]
        ELSE d1

\* the url dereferenced with "" for nil
MapRemoteFields_EmptyForNil(data, rp) ==
    [data EXCEPT !.RemoteRepositoryUrl =
                     StringValue(IF rp.RemoteRepositoryUrl = <<>> THEN EmptyString
                                 ELSE rp.RemoteRepositoryUrl[1]),
                 !.RemoteCacheEnabled = BoolValue(rp.IsRemoteCacheEnabled)]

\* lines 283-284
MapRemoteFields(data, rp) ==
    [data EXCEPT !.RemoteRepositoryUrl = StringPointerValue(rp.RemoteRepositoryUrl),
                 !.RemoteCacheEnabled = BoolValue(rp.IsRemoteCacheEnabled)]

\* lines 287-288
MapCacheFields(data, rp) ==
    [data EXCEPT
        !.FileCacheTimeTillRevalidation =
            Int64PointerValue(IntPtrToInt64Ptr(rp.FileCacheTimeTillRevalidation)),
        !.MetadataCacheTimeTillRevalidation =
            Int64PointerValue(IntPtrToInt64Ptr(rp.MetadataCacheTimeTillRevalidation))]

\* line 291
MapVirtualFields(data, rp) ==
    [data EXCEPT !.UploadLocalRepositoryId = StringPointerValue(rp.UploadLocalRepositoryId)]

\* lines 297-300: ids[i] = child.Id
ChildIds(children) == [i \in 1..Len(children) |-> children[i].Id]

\* line 304: resp.Diagnostics.HasError() after resp.Diagnostics.Append(listDiags...):
\* the test reads every diagnostic of the response, not the list's alone
ListConversionFailed(diags, listDiags) == HasError(diags \o listDiags)

\* the nil slice converted like a present one
MapChildren_ListForNil(data, rp, diags) ==
    LET ids == IF rp.ChildRepositories = <<>> THEN <<>>
               ELSE ChildIds(rp.ChildRepositories[1])
        got == ListValueFrom(ids)
    IN  IF ListConversionFailed(diags, got.diags)
        THEN [data |-> data, diags |-> diags \o got.diags, abort |-> TRUE]
        ELSE [data |-> [data EXCEPT !.ChildRepositoryIds = got.list],
              diags |-> diags \o got.diags, abort |-> FALSE]

\* lines 294-308: the model with its child ids, the diagnostics, and whether
\* the read goes on to write the state
MapChildren(data, rp, diags) ==
    IF rp.ChildRepositories = <<>>
    THEN [data |-> [data EXCEPT !.ChildRepositoryIds = ListNull],
          diags |-> diags, abort |-> FALSE]
    ELSE LET got == ListValueFrom(ChildIds(rp.ChildRepositories[1]))
         IN  IF ListConversionFailed(diags, got.diags)
             THEN [data |-> data, diags |-> diags \o got.diags, abort |-> TRUE]
             ELSE [data |-> [data EXCEPT !.ChildRepositoryIds = got.list],
                   diags |-> diags \o got.diags, abort |-> FALSE]

\* lines 237-247: read the config, stop on an error, take the two references
RepositoryReadConfig(f, cfg) ==
    LET got   == RepositoryConfigGet(cfg)
        diags == f.diags \o got.diags
    IN  IF HasError(diags)
        THEN [f EXCEPT !.kind = "repository", !.config = cfg, !.data = got.data,
                       !.diags = diags, !.pc = "done"]
        ELSE [f EXCEPT !.kind = "repository", !.config = cfg, !.data = got.data,
                       !.diags = diags,
                       !.workspace = ValueString(got.data.WorkspaceId),
                       !.repository = ValueString(got.data.Name),
                       !.pc = "GetWorkspace"]

\* lines 249-254: the workspace lookup; an error is added and the read goes on
RepositoryReadWorkspace(f, resp) ==
    LET g == [f EXCEPT !.calls = Append(@, Call("GetWorkspace", <<f.workspace>>)),
                       !.wsResp = resp, !.pc = "GetRepository"]
    IN  IF resp.err # NilError
        THEN [g EXCEPT !.diags = AddError(@, "Client Error",
                                   WorkspaceLookupErrorDetail(f.workspaceId, resp.err[1]))]
        ELSE [g EXCEPT !.workspaceId = resp.ws.Id]

\* lines 265-319: the mapping of the fetched record and the write of the state
RepositoryReadMap(f, rp) ==
    LET d1 == ComposeIdentity(f.data, f.workspaceId, rp)
        d2 == MapCoreFields(d1, rp)
        d3 == MapTypeFields(d2, rp)
        d4 == MapRemoteFields(d3, rp)
        d5 == MapCacheFields(d4, rp)
        d6 == MapVirtualFields(d5, rp)
        ch == MapChildren(d6, rp, f.diags)
    IN  IF ch.abort
        THEN [f EXCEPT !.data = ch.data, !.diags = ch.diags]
        ELSE [f EXCEPT !.data = ch.data, !.diags = ch.diags,
                       !.state = StateSet(ch.data)]

\* lines 256-319: the repository lookup, then either the error or the mapping
RepositoryReadLookup(f, resp) ==
    LET g == [f EXCEPT !.calls = Append(@, Call("GetRepository", GetRepositoryArgs(f))),
                       !.rpResp = resp, !.pc = "done"]
    IN  IF resp.err # NilError
        THEN [g EXCEPT !.diags = AddError(@, "Client Error",
                                   RepositoryErrorDetail(f.repository, f.workspaceId,
                                                         resp.err[1]))]
        ELSE RepositoryReadMap(g, resp.rp)

----------------------------------------------------------------------------
(* Configure of either data source *)

NoClient == "nil"
DataSources == {"workspace", "repository"}
Clients == {"c1", "c2"}

\* req.ProviderData: nil, a value of another type, or a *repoflow.Client
NilData == [type |-> "nil", ptr |-> NoClient]
OtherData == [type |-> "other", ptr |-> NoClient]
ClientData(c) == [type |-> "client", ptr |-> c]
ProviderData == {NilData, OtherData} \cup {ClientData(c) : c \in Clients}

\* the handle assigned before the type is checked: nil for another type
ConfigureResult_AssignsFirst(old, providerData) ==
    IF providerData.type = "nil"
    THEN [client |-> old, diags |-> <<>>]
    ELSE IF providerData.type # "client"
    THEN [client |-> "nil",
          diags |-> AddError(<<>>, "Unexpected Resource Configure Type",
                             <<"Expected *http.Client, got: ", providerData.type,
                               ". Please report this issue to the provider developers.">>)]
    ELSE [client |-> providerData.ptr, diags |-> <<>>]

\* lines 54-71 and 217-234: the client handle and the diagnostics after the call
ConfigureResult(old, providerData) ==
    IF providerData.type = "nil"
    THEN [client |-> old, diags |-> <<>>]
    ELSE IF providerData.type # "client"
    THEN [client |-> old,
          diags |-> AddError(<<>>, "Unexpected Resource Configure Type",
                             <<"Expected *http.Client, got: ", providerData.type,
                               ". Please report this issue to the provider developers.">>)]
    ELSE [client |-> providerData.ptr, diags |-> <<>>]

NotConfigured == [called |-> FALSE]

----------------------------------------------------------------------------
(* Inputs: what the host passes and what the client answers *)

Errors == {<<"timeout">>}

AcmeRef == <<"acme">>
W1 == <<"w-1">>
R9 == <<"r-9">>
Libs == <<"libs">>

WorkspaceIds == SeqsUpTo({"w", Slash}, MaxIdLen) \cup {W1}
RepositoryIds == SeqsUpTo({"r", Slash}, MaxIdLen) \cup {R9}

WorkspaceConfigs ==
    {[readable |-> FALSE, name |-> EmptyString]}
        \cup {[readable |-> TRUE, name |-> n] : n \in {AcmeRef, W1}}

RepositoryConfigs ==
    {[readable |-> FALSE, name |-> EmptyString, workspace |-> EmptyString]}
        \cup {[readable |-> TRUE, name |-> Libs, workspace |-> AcmeRef],
              [readable |-> TRUE, name |-> <<"other">>, workspace |-> W1]}

WorkspaceResponses ==
    {WorkspaceErr(e) : e \in Errors}
        \cup {WorkspaceOk([Id |-> i, Name |-> AcmeRef]) : i \in WorkspaceIds}

\* the repository of the reference scenario: a local npm repository
LibsRepository ==
    [ZeroRepository EXCEPT !.Id = R9, !.Name = Libs, !.Status = <<"ready">>,
                           !.RepositoryType = <<"local">>, !.PackageType = <<"npm">>]

Children == {[Id |-> <<"c1">>], [Id |-> <<"c2">>]}
ChildSlices == {<<>>} \cup {<<s>> : s \in SeqsUpTo(Children, MaxChildren)}
OptionalStrings(S) == {<<>>} \cup {<<s>> : s \in S}
OptionalMillis == {<<>>} \cup {<<n>> : n \in 0..MaxMillis}

\* the records GetRepository may return: the reference repository with every
\* identity, with every child slice, with every combination of the plain
\* fields, of the optional strings and of the optional integers
RepositoryRecords ==
    {[LibsRepository EXCEPT !.Id = i] : i \in RepositoryIds}
    \cup
    {[LibsRepository EXCEPT !.ChildRepositories = c] : c \in ChildSlices}
    \cup
    {[LibsRepository EXCEPT !.Name = n, !.Status = st, !.PackageType = p,
                            !.RepositoryType = t] :
        n \in {Libs, <<"mirror">>}, st \in {<<"ready">>, EmptyString},
        p \in {<<"npm">>, EmptyString}, t \in {<<"local">>, EmptyString}}
    \cup
    {[LibsRepository EXCEPT !.RemoteRepositoryUrl = u, !.IsRemoteCacheEnabled = b,
                            !.UploadLocalRepositoryId = up] :
        u \in OptionalStrings({EmptyString, <<"https:", Slash, Slash, "up">>}),
        b \in BOOLEAN, up \in OptionalStrings({EmptyString, <<"c1">>})}
    \cup
    {[LibsRepository EXCEPT !.FileCacheTimeTillRevalidation = fc,
                            !.MetadataCacheTimeTillRevalidation = mc] :
        fc \in OptionalMillis, mc \in OptionalMillis}

RepositoryResponses ==
    {RepositoryErr(e) : e \in Errors} \cup {RepositoryOk(r) : r \in RepositoryRecords}

\* the inputs of the concurrent specification
ConcWorkspaceConfigs == {c \in WorkspaceConfigs : c.name \in {EmptyString, AcmeRef}}
ConcRepositoryConfigs == {c \in RepositoryConfigs : c.name \in {EmptyString, Libs}}
ConcWorkspaceResponses ==
    {WorkspaceErr(e) : e \in Errors}
        \cup {WorkspaceOk([Id |-> i, Name |-> AcmeRef]) : i \in {W1, <<"w">>}}
ConcRepositoryResponses ==
    {RepositoryErr(e) : e \in Errors}
        \cup {RepositoryOk([LibsRepository EXCEPT !.ChildRepositories = c]) :
                c \in {<<>>, <<<<>>>>}}

Workers == {1}
ConcWorkers == {1, 2}

----------------------------------------------------------------------------
(* Actions *)

\* Configure of data source d with req.ProviderData = providerData
Configure(d, providerData) ==
    LET res == ConfigureResult(client[d], providerData)
    IN  /\ client' = [client EXCEPT ![d] = res.client]
        /\ configured' = [called |-> TRUE, d |-> d, providerData |-> providerData,
                          diags |-> res.diags]
        /\ UNCHANGED frame

\* the host calls Read on a data source whose Configure has set the client
WorkspaceRead_Begin(self, cfg) ==
    /\ frame[self].pc = "idle"
    /\ client["workspace"] # NoClient
    /\ frame' = [frame EXCEPT ![self] = WorkspaceReadConfig(@, cfg)]
    /\ UNCHANGED <<client, configured>>

WorkspaceRead_GetWorkspace(self, resp) ==
    /\ frame[self].kind = "workspace"
    /\ frame[self].pc = "GetWorkspace"
    /\ frame' = [frame EXCEPT ![self] = WorkspaceReadLookup(@, resp)]
    /\ UNCHANGED <<client, configured>>

RepositoryRead_Begin(self, cfg) ==
    /\ frame[self].pc = "idle"
    /\ client["repository"] # NoClient
    /\ frame' = [frame EXCEPT ![self] = RepositoryReadConfig(@, cfg)]
    /\ UNCHANGED <<client, configured>>

\* the resolved workspace id kept on the data source, where every read of
\* it sees the last one stored
RepositoryRead_GetWorkspace_SharedId(self, resp) ==
    /\ frame[self].kind = "repository"
    /\ frame[self].pc = "GetWorkspace"
    /\ LET mine == RepositoryReadWorkspace(frame[self], resp)
       IN  frame' = [w \in DOMAIN frame |->
                        IF w = self THEN mine
                        ELSE IF frame[w].kind = "repository"
                        THEN [frame[w] EXCEPT !.workspaceId = mine.workspaceId]
                        ELSE frame[w]]
    /\ UNCHANGED <<client, configured>>

RepositoryRead_GetWorkspace(self, resp) ==
    /\ frame[self].kind = "repository"
    /\ frame[self].pc = "GetWorkspace"
    /\ frame' = [frame EXCEPT ![self] = RepositoryReadWorkspace(@, resp)]
    /\ UNCHANGED <<client, configured>>

RepositoryRead_GetRepository(self, resp) ==
    /\ frame[self].kind = "repository"
    /\ frame[self].pc = "GetRepository"
    /\ frame' = [frame EXCEPT ![self] = RepositoryReadLookup(@, resp)]
    /\ UNCHANGED <<client, configured>>

\* Read has returned: the host takes the response and the worker is free
ReadReturn(self) ==
    /\ frame[self].pc = "done"
    /\ frame' = [frame EXCEPT ![self] = InitFrame]
    /\ UNCHANGED <<client, configured>>

----------------------------------------------------------------------------
(* Specifications *)

Init ==
    /\ client = [d \in DataSources |-> NoClient]
    /\ configured = NotConfigured
    /\ frame = [w \in Workers |-> InitFrame]

Next ==
    \/ \E d \in DataSources, pd \in ProviderData : Configure(d, pd)
    \/ \E self \in Workers, cfg \in WorkspaceConfigs : WorkspaceRead_Begin(self, cfg)
    \/ \E self \in Workers, resp \in WorkspaceResponses :
            WorkspaceRead_GetWorkspace(self, resp)
    \/ \E self \in Workers, cfg \in RepositoryConfigs : RepositoryRead_Begin(self, cfg)
    \/ \E self \in Workers, resp \in WorkspaceResponses :
            RepositoryRead_GetWorkspace(self, resp)
    \/ \E self \in Workers, resp \in RepositoryResponses :
            RepositoryRead_GetRepository(self, resp)
    \/ \E self \in Workers : ReadReturn(self)

Spec == Init /\ [][Next]_vars

\* the host runs reads on two workers at once
InitConc ==
    /\ client = [d \in DataSources |-> NoClient]
    /\ configured = NotConfigured
    /\ frame = [w \in ConcWorkers |-> InitFrame]

NextConc ==
    \/ \E d \in DataSources, pd \in ProviderData : Configure(d, pd)
    \/ \E self \in ConcWorkers, cfg \in ConcWorkspaceConfigs :
            WorkspaceRead_Begin(self, cfg)
    \/ \E self \in ConcWorkers, resp \in ConcWorkspaceResponses :
            WorkspaceRead_GetWorkspace(self, resp)
    \/ \E self \in ConcWorkers, cfg \in ConcRepositoryConfigs :
            RepositoryRead_Begin(self, cfg)
    \/ \E self \in ConcWorkers, resp \in ConcWorkspaceResponses :
            RepositoryRead_GetWorkspace(self, resp)
    \/ \E self \in ConcWorkers, resp \in ConcRepositoryResponses :
            RepositoryRead_GetRepository(self, resp)
    \/ \E self \in ConcWorkers : ReadReturn(self)

SpecConc == InitConc /\ [][NextConc]_vars

----------------------------------------------------------------------------
(* The whole handlers, run from entry to return on given responses *)

\* WorkspaceDataSource.Read on config cfg when GetWorkspace answers wsResp
RunWorkspaceRead(cfg, wsResp) ==
    LET f1 == WorkspaceReadConfig(InitFrame, cfg)
    IN  IF f1.pc = "done" THEN f1 ELSE WorkspaceReadLookup(f1, wsResp)

\* RepositoryDataSource.Read on config cfg when GetWorkspace answers wsResp
\* and GetRepository answers rpResp
RunRepositoryRead(cfg, wsResp, rpResp) ==
    LET f1 == RepositoryReadConfig(InitFrame, cfg)
    IN  IF f1.pc = "done" THEN f1
        ELSE RepositoryReadLookup(RepositoryReadWorkspace(f1, wsResp), rpResp)

----------------------------------------------------------------------------
(* Properties *)

\* the reads of one data source that have returned
Returned(kind) == {w \in DOMAIN frame : frame[w].kind = kind /\ frame[w].pc = "done"}

\* the repository reads that have written state
Written == {w \in Returned("repository") : frame[w].state.written}

WorkspaceFailed(f) == f.wsResp.err # NilError
RepositoryFailed(f) == f.rpResp.err # NilError
Fetched(f) == f.config.readable /\ ~RepositoryFailed(f)

\* the diagnostic a failed workspace lookup leaves in a repository read
WorkspaceLookupDiagnostic(f) ==
    ErrorDiagnostic("Client Error",
                    WorkspaceLookupErrorDetail(EmptyString, f.wsResp.err[1]))

\* C1 as stated: whenever GetRepository fails, no state is written and the
\* read ends with exactly one error diagnostic, which names the repository
\* and the workspace id, whatever the workspace lookup did.
C1_ExactlyOneError ==
    \A w \in Returned("repository") :
        LET f == frame[w]
        IN  (f.config.readable /\ RepositoryFailed(f)) =>
                /\ ~f.state.written
                /\ ErrorCount(f.diags) = 1
                /\ \E i \in 1..Len(f.diags) :
                        /\ f.diags[i].severity = "error"
                        /\ Contains(f.diags[i].detail, f.repository)
                        /\ Contains(f.diags[i].detail, f.workspaceId)

\* C1 amended: whenever GetRepository fails, no state is written and the
\* last diagnostic is the repository error, naming the repository and the
\* workspace id; it is the only error when the workspace lookup succeeded
\* and the second of exactly two when the workspace lookup failed.
C1_RepositoryErrorEnds ==
    \A w \in Returned("repository") :
        LET f == frame[w]
            n == Len(f.diags)
        IN  (f.config.readable /\ RepositoryFailed(f)) =>
                /\ ~f.state.written
                /\ n >= 1
                /\ f.diags[n].severity = "error"
                /\ Contains(f.diags[n].detail, <<"Unable to read repository ">>)
                /\ Contains(f.diags[n].detail, f.repository)
                /\ Contains(f.diags[n].detail, f.workspaceId)
                /\ f.repository = f.config.name
                /\ f.workspaceId = (IF WorkspaceFailed(f) THEN EmptyString
                                    ELSE f.wsResp.ws.Id)
                /\ n = ErrorCount(f.diags)
                /\ n = (IF WorkspaceFailed(f) THEN 2 ELSE 1)
                /\ WorkspaceFailed(f) => f.diags[1] = WorkspaceLookupDiagnostic(f)

C1_Witness ==
    \E w \in Returned("repository") :
        /\ RepositoryFailed(frame[w])
        /\ WorkspaceFailed(frame[w])
        /\ Len(frame[w].diags) = 2
        /\ ~frame[w].state.written

\* C2 as stated: when GetWorkspace fails and GetRepository succeeds, the
\* read writes state with Id = "/" + repository.Id and WorkspaceId = "",
\* whatever the record's ChildRepositories, and the workspace error is among
\* the diagnostics.
C2_AlwaysCompletes ==
    \A w \in Returned("repository") :
        LET f == frame[w]
        IN  (WorkspaceFailed(f) /\ Fetched(f)) =>
                /\ f.diags = <<WorkspaceLookupDiagnostic(f)>>
                /\ f.state.written
                /\ f.state.value.Id = StringValue(<<Slash>> \o f.rpResp.rp.Id)
                /\ f.state.value.WorkspaceId = StringValue(EmptyString)

\* C2, what the code does instead: when GetWorkspace fails and GetRepository
\* succeeds, the workspace error is the one diagnostic; the state is written
\* (Id = "/" + repository.Id, WorkspaceId = "") only if the record's
\* ChildRepositories is nil, and if it is present, empty or not, the test of
\* line 304 sees the workspace error and the read returns without state.
C2_CompletesWithoutChildren ==
    \A w \in Returned("repository") :
        LET f == frame[w]
        IN  (WorkspaceFailed(f) /\ Fetched(f)) =>
                /\ f.diags = <<WorkspaceLookupDiagnostic(f)>>
                /\ f.rpResp.rp.ChildRepositories = <<>> =>
                        /\ f.state.written
                        /\ f.state.value.Id = StringValue(<<Slash>> \o f.rpResp.rp.Id)
                        /\ f.state.value.WorkspaceId = StringValue(EmptyString)
                /\ f.rpResp.rp.ChildRepositories # <<>> => ~f.state.written

\* C3 as stated: the written Id is workspaceId + "/" + repository.Id, and its
\* split on the first "/" is the pair (workspaceId, repository.Id) held by
\* the WorkspaceId and RepositoryId fields, for every pair of ids.
C3_IdSplitsBack ==
    \A w \in Written :
        LET f  == frame[w]
            st == f.state.value
        IN  /\ st.WorkspaceId = StringValue(f.workspaceId)
            /\ st.RepositoryId = StringValue(f.rpResp.rp.Id)
            /\ st.Id = StringValue(f.workspaceId \o <<Slash>> \o f.rpResp.rp.Id)
            /\ SplitFirst(st.Id.value) = <<st.WorkspaceId.value, st.RepositoryId.value>>

\* C3 amended: the written Id is workspaceId + "/" + repository.Id with both
\* parts stored in WorkspaceId and RepositoryId, and its split on the first
\* "/" is that pair whenever the workspace id holds no "/".
C3_IdSplitsBackWithoutSlash ==
    \A w \in Written :
        LET f  == frame[w]
            st == f.state.value
        IN  /\ st.WorkspaceId = StringValue(f.workspaceId)
            /\ st.RepositoryId = StringValue(f.rpResp.rp.Id)
            /\ ~st.Id.null
            /\ st.Id.value = f.workspaceId \o <<Slash>> \o f.rpResp.rp.Id
            /\ ~Contains(f.workspaceId, <<Slash>>) =>
                    SplitFirst(st.Id.value) = <<st.WorkspaceId.value, st.RepositoryId.value>>

C3_Witness ==
    \E w \in Written :
        /\ frame[w].workspaceId = <<"w", "w">>
        /\ frame[w].rpResp.rp.Id = <<Slash, "r">>
        /\ SplitFirst(frame[w].state.value.Id.value) = <<<<"w", "w">>, <<Slash, "r">>>>

\* C4: a written state has the null list for child ids when the record's
\* ChildRepositories is nil, and otherwise a non-null list holding the Id of
\* each child, one per child and in the record's order.
C4_ChildIds ==
    \A w \in Written :
        LET ch  == frame[w].rpResp.rp.ChildRepositories
            out == frame[w].state.value.ChildRepositoryIds
        IN  /\ ch = <<>> => out.null
            /\ ch # <<>> =>
                    /\ ~out.null
                    /\ Len(out.elems) = Len(ch[1])
                    /\ \A i \in 1..Len(ch[1]) : out.elems[i] = StringValue(ch[1][i].Id)

C4_Witness ==
    \E w \in Written :
        /\ frame[w].rpResp.rp.ChildRepositories = <<<<[Id |-> <<"c2">>], [Id |-> <<"c1">>]>>>>
        /\ frame[w].state.value.ChildRepositoryIds.elems
                = <<StringValue(<<"c2">>), StringValue(<<"c1">>)>>

\* C5: in a written state PackageType and RepositoryType are both null when
\* the record's RepositoryType is empty, even with a non-empty PackageType,
\* and both hold the record's values when its RepositoryType is not empty.
C5_TypeGuard ==
    \A w \in Written :
        LET rp == frame[w].rpResp.rp
            st == frame[w].state.value
        IN  /\ rp.RepositoryType = EmptyString =>
                    st.PackageType.null /\ st.RepositoryType.null
            /\ rp.RepositoryType # EmptyString =>
                    /\ st.PackageType = StringValue(rp.PackageType)
                    /\ st.RepositoryType = StringValue(rp.RepositoryType)

C5_Witness ==
    \E w \in Written :
        /\ frame[w].rpResp.rp.RepositoryType = EmptyString
        /\ frame[w].rpResp.rp.PackageType = <<"npm">>
        /\ frame[w].state.value.PackageType.null

OptionalKept(p, out) ==
    /\ p = <<>> => out.null
    /\ p # <<>> => ~out.null /\ out.value = p[1]

\* C6: in a written state each of the four optional fields is null when the
\* record's field is nil and holds exactly the pointed value otherwise,
\* zero and the empty string included.
C6_OptionalsKept ==
    \A w \in Written :
        LET rp == frame[w].rpResp.rp
            st == frame[w].state.value
        IN  /\ OptionalKept(rp.FileCacheTimeTillRevalidation,
                            st.FileCacheTimeTillRevalidation)
            /\ OptionalKept(rp.MetadataCacheTimeTillRevalidation,
                            st.MetadataCacheTimeTillRevalidation)
            /\ OptionalKept(rp.RemoteRepositoryUrl, st.RemoteRepositoryUrl)
            /\ OptionalKept(rp.UploadLocalRepositoryId, st.UploadLocalRepositoryId)

C6_Witness ==
    \E w \in Written :
        LET rp == frame[w].rpResp.rp
            st == frame[w].state.value
        IN  /\ rp.RemoteRepositoryUrl = <<EmptyString>>
            /\ rp.UploadLocalRepositoryId = <<>>
            /\ st.RemoteRepositoryUrl = StringValue(EmptyString)
            /\ st.UploadLocalRepositoryId.null
            /\ st.FileCacheTimeTillRevalidation.null

\* C7: a workspace read with a readable config ends in one of two ways:
\* GetWorkspace succeeded, the state holds the returned Id and Name and there
\* is no diagnostic; or GetWorkspace failed, there is exactly one error
\* diagnostic and no state.  No read ends with both state and an error.
C7_WorkspaceOutcomes ==
    \A w \in Returned("workspace") :
        LET f == frame[w]
        IN  /\ ~(f.state.written /\ HasError(f.diags))
            /\ f.config.readable =>
                    \/ /\ ~WorkspaceFailed(f)
                       /\ f.state.written
                       /\ f.state.value.Id = StringValue(f.wsResp.ws.Id)
                       /\ f.state.value.Name = StringValue(f.wsResp.ws.Name)
                       /\ f.diags = <<>>
                    \/ /\ WorkspaceFailed(f)
                       /\ ~f.state.written
                       /\ Len(f.diags) = 1
                       /\ ErrorCount(f.diags) = 1

C7_Witness ==
    \E w \in Returned("workspace") :
        /\ frame[w].config.name = W1
        /\ frame[w].state.written
        /\ frame[w].state.value.Name = StringValue(AcmeRef)
        /\ frame[w].state.value.Id = StringValue(<<"w", Slash>>)

\* the state of the reference scenario
LibsState ==
    [NullRepositoryModel EXCEPT
        !.Id = StringValue(<<"w-1", Slash, "r-9">>),
        !.RepositoryId = StringValue(R9), !.WorkspaceId = StringValue(W1),
        !.Name = StringValue(Libs), !.Status = StringValue(<<"ready">>),
        !.RepositoryType = StringValue(<<"local">>),
        !.PackageType = StringValue(<<"npm">>),
        !.RemoteCacheEnabled = BoolValue(FALSE),
        !.ChildRepositoryIds = ListNull]

\* C8: a repository read whose two lookups succeed writes state with the
\* fetched repository Id, the resolved workspace Id in place of the config's
\* reference, and the fetched Name and Status, with no error diagnostic;
\* workspace "acme" -> "w-1" with the reference repository gives LibsState.
C8_BothLookupsSucceed ==
    \A w \in Returned("repository") :
        LET f == frame[w]
        IN  (Fetched(f) /\ ~WorkspaceFailed(f)) =>
                /\ f.state.written
                /\ ~HasError(f.diags)
                /\ f.state.value.RepositoryId = StringValue(f.rpResp.rp.Id)
                /\ f.state.value.WorkspaceId = StringValue(f.wsResp.ws.Id)
                /\ f.state.value.Name = StringValue(f.rpResp.rp.Name)
                /\ f.state.value.Status = StringValue(f.rpResp.rp.Status)
                /\ (f.config.workspace = AcmeRef /\ f.wsResp.ws.Id = W1
                        /\ f.rpResp.rp = LibsRepository) =>
                        f.state.value = LibsState

C8_Witness ==
    \E w \in Returned("repository") :
        /\ frame[w].config = [readable |-> TRUE, name |-> Libs, workspace |-> AcmeRef]
        /\ frame[w].wsResp = WorkspaceOk([Id |-> W1, Name |-> AcmeRef])
        /\ frame[w].rpResp = RepositoryOk(LibsRepository)
        /\ frame[w].state = StateSet(LibsState)

\* the calls a repository read has made when it stands at each place
ExpectedCalls(f) ==
    LET first  == Call("GetWorkspace", <<f.config.workspace>>)
        second == Call("GetRepository",
                       <<IF WorkspaceFailed(f) THEN EmptyString ELSE f.wsResp.ws.Id,
                         f.config.name>>)
    IN  IF ~f.config.readable \/ f.pc = "GetWorkspace" THEN <<>>
        ELSE IF f.pc = "GetRepository" THEN <<first>>
        ELSE <<first, second>>

\* C9: a repository read with a readable config calls GetWorkspace once with
\* the config's reference, then GetRepository once with the returned
\* workspace Id (the empty string after a failed lookup) and the name, and
\* nothing more after a failure; with an unreadable config it calls nothing
\* and writes no state.
C9_CallsOnceInOrder ==
    \A w \in DOMAIN frame :
        LET f == frame[w]
        IN  f.kind = "repository" =>
                /\ f.calls = ExpectedCalls(f)
                /\ (f.pc = "done" /\ ~f.config.readable) => ~f.state.written

C9_Witness ==
    \E w \in Returned("repository") :
        /\ WorkspaceFailed(frame[w])
        /\ RepositoryFailed(frame[w])
        /\ frame[w].calls = <<Call("GetWorkspace", <<W1>>),
                              Call("GetRepository", <<EmptyString, <<"other">>>>)>>

\* the response of the read in frame f had it run alone on the same answers
Alone(f) ==
    IF f.kind = "workspace" THEN RunWorkspaceRead(f.config, f.wsResp)
    ELSE RunRepositoryRead(f.config, f.wsResp, f.rpResp)

ReadsIndependent ==
    \A w \in DOMAIN frame :
        frame[w].pc = "done" =>
            /\ frame[w].diags = Alone(frame[w]).diags
            /\ frame[w].state = Alone(frame[w]).state

\* a step that changes a client handle is a Configure call of that data
\* source with a client, and it touches no read; a Configure call with nil
\* or with another type leaves the handle, the first without a diagnostic,
\* the second with exactly one error
ClientSetOnlyByConfigure ==
    /\ \A d \in DataSources :
            client'[d] # client[d] =>
                /\ configured'.called
                /\ configured'.d = d
                /\ configured'.providerData.type = "client"
                /\ client'[d] = configured'.providerData.ptr
                /\ frame' = frame
    /\ frame' # frame => client' = client /\ configured' = configured
    /\ (configured' # configured /\ configured'.providerData.type = "nil") =>
            client' = client /\ configured'.diags = <<>>
    /\ (configured' # configured /\ configured'.providerData.type = "other") =>
            /\ client' = client
            /\ Len(configured'.diags) = 1
            /\ ErrorCount(configured'.diags) = 1

\* C10: no read changes a client handle, which only a Configure call with a
\* client changes (nil leaves it without a diagnostic, another type leaves
\* it with exactly one error), and under every interleaving of two reads
\* each read's diagnostics and state are those of the same read run alone
\* on the same answers.
C10_ReadsShareNothing == []ReadsIndependent /\ [][ClientSetOnlyByConfigure]_vars

C10_Witness ==
    /\ frame[1].kind = "repository" /\ frame[1].pc = "done"
    /\ frame[1].state.written
    /\ frame[1].state.value.WorkspaceId = StringValue(W1)
    /\ frame[2].kind = "repository" /\ frame[2].pc = "GetRepository"
    /\ WorkspaceFailed(frame[2])
    /\ configured.called /\ configured.providerData.type = "other"
    /\ client["repository"] = "c2"

====
